---- MODULE Spec2Model ----
(***************************************************************************)
(* Heimdall network watcher: the monitor loop (monitor.py), the status     *)
(* record it guards with a lock, the SQLite store it writes (database.py)  *)
(* and the runtime configuration it reads (config.py).                     *)
(*                                                                         *)
(* Python values: None is -1, True is 1, False is 0 (log_status stores     *)
(* "1 if up else 0"); timestamps are the non-negative readings of a        *)
(* non-decreasing clock.                                                   *)
(***************************************************************************)
EXTENDS Integers, Sequences, FiniteSets, TLC

None == -1
True == 1
False == 0

(* ------------------------------ bounds -------------------------------- *)
MaxCycles == 3
MaxTime == 2
NumReaders == 1
MaxUpdates == 2
MaxRows == 2
MaxSamples == 3
MaxRestarts == 1
MaxStarts == 2

Readers == 1 .. NumReaders
LoopId == 0

(* ------------------------------ config.py ---------------------------- *)

\* the characters of a str, one per element
Chars8888 == <<"8", ".", "8", ".", "8", ".", "8">>
Chars1111 == <<"1", ".", "1", ".", "1", ".", "1">>
Chars9999 == <<"9", ".", "9", ".", "9", ".", "9">>

\* os.environ.get("HEIMDALL_PING_TARGETS", "8.8.8.8,1.1.1.1")
_BASE_PING_TARGETS_RAW == [kind |-> "str", s |-> Chars8888 \o <<",">> \o Chars1111,
                           items |-> << >>]
_BASE_POLL_INTERVAL == 10
_BASE_PING_TIMEOUT == 5

MIN_SECONDS == 1
MAX_POLL_INTERVAL == 3600
MAX_PING_TIMEOUT == 60
MAX_TARGET_LEN == 255

RECURSIVE StripLeft(_)
StripLeft(s) ==
    IF s = << >> THEN s
    ELSE IF Head(s) = " " THEN StripLeft(Tail(s)) ELSE s

RECURSIVE StripRight(_)
StripRight(s) ==
    IF s = << >> THEN s
    ELSE IF s[Len(s)] = " " THEN StripRight(SubSeq(s, 1, Len(s) - 1)) ELSE s

\* str.strip()
Strip(s) == StripRight(StripLeft(s))

\* str.split(","): cur is the item being read
RECURSIVE Split(_, _)
Split(s, cur) ==
    IF s = << >> THEN << cur >>
    ELSE IF Head(s) = ","
         THEN << cur >> \o Split(Tail(s), << >>)
         ELSE Split(Tail(s), Append(cur, Head(s)))

\* list(dict.fromkeys(items)): the first occurrence of each item, in order
RECURSIVE Dedup(_, _)
Dedup(items, acc) ==
    IF items = << >> THEN acc
    ELSE IF \E i \in 1 .. Len(acc) : acc[i] = Head(items)
         THEN Dedup(Tail(items), acc)
         ELSE Dedup(Tail(items), Append(acc, Head(items)))

RECURSIVE DropEmpty(_)
DropEmpty(items) ==
    IF items = << >> THEN << >>
    ELSE IF Head(items) = << >>
         THEN DropEmpty(Tail(items))
         ELSE << Head(items) >> \o DropEmpty(Tail(items))

\* int(value): an int is itself, a float (given in tenths) is truncated,
\* anything else raises
ParseInt(value) ==
    IF value.kind = "int" THEN [ok |-> TRUE, v |-> value.v]
    ELSE IF value.kind = "float"
         THEN [ok |-> TRUE,
               v |-> IF value.v >= 0 THEN value.v \div 10
                                     ELSE -((-value.v) \div 10)]
         ELSE [ok |-> FALSE, v |-> 0]

\* a _coerce_positive_int that does not test the maximum
_coerce_positive_int_NoMaximum(value, minimum, maximum) ==
    IF ~ParseInt(value).ok THEN [ok |-> FALSE, v |-> 0]
    ELSE IF ParseInt(value).v < minimum THEN [ok |-> FALSE, v |-> 0]
    ELSE [ok |-> TRUE, v |-> ParseInt(value).v]

\* ok is FALSE where the code raises ValueError
_coerce_positive_int(value, minimum, maximum) ==
    LET parsed == ParseInt(value) IN
    IF ~parsed.ok THEN [ok |-> FALSE, v |-> 0]
    ELSE IF parsed.v < minimum THEN [ok |-> FALSE, v |-> 0]
    ELSE IF parsed.v > maximum THEN [ok |-> FALSE, v |-> 0]
    ELSE [ok |-> TRUE, v |-> parsed.v]

_normalize_target(value) ==
    IF value.kind = "none" THEN [ok |-> FALSE, v |-> << >>]
    ELSE LET target == Strip(value.s) IN
         IF target = << >> THEN [ok |-> FALSE, v |-> << >>]
         ELSE IF Len(target) > MAX_TARGET_LEN THEN [ok |-> FALSE, v |-> << >>]
         ELSE [ok |-> TRUE, v |-> target]

_normalize_targets(value) ==
    IF value.kind \notin {"str", "list"} THEN [ok |-> FALSE, v |-> << >>]
    ELSE LET split == IF value.kind = "str" THEN Split(value.s, << >>)
                                            ELSE value.items
             raw_items == [i \in 1 .. Len(split) |-> Strip(split[i])]
             kept == DropEmpty(raw_items)
             deduped == Dedup(kept, << >>)
         IN  IF \E i \in 1 .. Len(kept) :
                    ~_normalize_target([kind |-> "str", s |-> kept[i]]).ok
             THEN [ok |-> FALSE, v |-> << >>]
             ELSE IF deduped = << >> THEN [ok |-> FALSE, v |-> << >>]
             ELSE [ok |-> TRUE, v |-> deduped]

\* normalized: the keys set and their values; ok is FALSE where the code raises
_validate_update(payload) ==
    LET ts == _normalize_targets(payload.ping_targets)
        t1 == _normalize_target(payload.ping_target)
        pi == _coerce_positive_int(payload.poll_interval, MIN_SECONDS,
                                   MAX_POLL_INTERVAL)
        pt == _coerce_positive_int(payload.ping_timeout, MIN_SECONDS,
                                   MAX_PING_TIMEOUT)
        has(k) == k \in payload.keys
        keys == (IF has("ping_targets") \/ has("ping_target")
                 THEN {"PING_TARGETS"} ELSE {})
                \cup (IF has("poll_interval") THEN {"POLL_INTERVAL"} ELSE {})
                \cup (IF has("ping_timeout") THEN {"PING_TIMEOUT"} ELSE {})
        bad == [ok |-> FALSE, keys |-> {}, PING_TARGETS |-> << >>,
                POLL_INTERVAL |-> 0, PING_TIMEOUT |-> 0]
    IN  IF ~payload.dict THEN bad
        ELSE IF has("ping_targets") /\ ~ts.ok THEN bad
        ELSE IF has("ping_target") /\ ~t1.ok THEN bad
        ELSE IF has("poll_interval") /\ ~pi.ok THEN bad
        ELSE IF has("ping_timeout") /\ ~pt.ok THEN bad
        ELSE IF has("poll_interval") /\ has("ping_timeout") /\ pt.v > pi.v THEN bad
        ELSE IF keys = {} THEN bad
        ELSE [ok |-> TRUE, keys |-> keys,
              PING_TARGETS |-> IF has("ping_target") THEN << t1.v >>
                               ELSE IF has("ping_targets") THEN ts.v ELSE << >>,
              POLL_INTERVAL |-> IF has("poll_interval") THEN pi.v ELSE 0,
              PING_TIMEOUT |-> IF has("ping_timeout") THEN pt.v ELSE 0]

\* module initialisation, lines 162-186, with no settings file and the
\* environment's defaults
InitialConfig ==
    LET ts == _normalize_targets(_BASE_PING_TARGETS_RAW).v
        pi == _coerce_positive_int([kind |-> "int", v |-> _BASE_POLL_INTERVAL],
                                   MIN_SECONDS, MAX_POLL_INTERVAL).v
        pt == _coerce_positive_int([kind |-> "int", v |-> _BASE_PING_TIMEOUT],
                                   MIN_SECONDS, MAX_PING_TIMEOUT).v
    IN  [targets |-> ts, interval |-> pi,
         timeout |-> IF pt > pi THEN pi ELSE pt]

(* the request bodies the model posts to update_runtime_config *)
NoTargets == [kind |-> "list", s |-> << >>, items |-> << >>]
NoTarget == [kind |-> "none", s |-> << >>]
NoInt == [kind |-> "bad", v |-> 0]
IntValue(n) == [kind |-> "int", v |-> n]
Body(keys, ts, t, pi, pt) ==
    [dict |-> TRUE, keys |-> keys, ping_targets |-> ts, ping_target |-> t,
     poll_interval |-> pi, ping_timeout |-> pt]

Payloads ==
    { Body({"poll_interval"}, NoTargets, NoTarget, IntValue(60), NoInt),
      Body({"ping_timeout"}, NoTargets, NoTarget, NoInt, IntValue(15)),
      Body({"poll_interval", "ping_timeout"}, NoTargets, NoTarget, IntValue(2), IntValue(2)),
      Body({"poll_interval", "ping_timeout"}, NoTargets, NoTarget, IntValue(3), IntValue(5)),
      Body({"ping_targets"},
           [kind |-> "str", items |-> << >>,
            s |-> Chars1111 \o <<",", " ">> \o Chars9999 \o <<",", ",">> \o Chars1111],
           NoTarget, NoInt, NoInt),
      Body({"ping_targets"},
           [kind |-> "list", s |-> << >>, items |-> << <<" ">>, << >> >>],
           NoTarget, NoInt, NoInt),
      Body({"ping_target"}, NoTargets,
           [kind |-> "str", s |-> <<" ">> \o Chars9999 \o <<" ">>], NoInt, NoInt),
      Body({"ping_target"}, NoTargets,
           [kind |-> "str", s |-> [i \in 1 .. MAX_TARGET_LEN + 1 |-> "a"]],
           NoInt, NoInt),
      Body({"poll_interval"}, NoTargets, NoTarget, IntValue(0), NoInt),
      Body({"poll_interval"}, NoTargets, NoTarget, IntValue(MAX_POLL_INTERVAL + 1), NoInt),
      Body({"ping_timeout"}, NoTargets, NoTarget, NoInt, IntValue(MAX_PING_TIMEOUT + 1)),
      Body({"ping_timeout"}, NoTargets, NoTarget, NoInt,
           [kind |-> "float", v |-> 19]),
      Body({"poll_interval"}, NoTargets, NoTarget, NoInt, NoInt),
      Body({}, NoTargets, NoTarget, NoInt, NoInt),
      [Body({"poll_interval"}, NoTargets, NoTarget, IntValue(60), NoInt)
         EXCEPT !.dict = FALSE] }

(* the settings files the model starts from: keys, and the value of each *)
Stored(keys, ts, t, pi, pt) ==
    [keys |-> keys, PING_TARGETS |-> ts, PING_TARGET |-> t,
     POLL_INTERVAL |-> pi, PING_TIMEOUT |-> pt]

StoredFiles ==
    { Stored({}, NoTargets, << >>, NoInt, NoInt),
      Stored({"POLL_INTERVAL", "PING_TIMEOUT"}, NoTargets, << >>,
             IntValue(3), IntValue(5)),
      Stored({"PING_TARGETS", "POLL_INTERVAL", "PING_TIMEOUT"},
             [kind |-> "list", s |-> << >>,
              items |-> << <<" ">> \o Chars9999, Chars9999, Chars1111 >>],
             << >>, IntValue(MAX_POLL_INTERVAL), IntValue(MAX_PING_TIMEOUT)),
      Stored({"PING_TARGETS"},
             [kind |-> "list", s |-> << >>,
              items |-> << Chars9999, Chars8888, Chars1111 >>],
             << >>, NoInt, NoInt),
      Stored({"PING_TARGET"}, NoTargets, Chars9999, NoInt, NoInt),
      Stored({"POLL_INTERVAL"}, NoTargets, << >>, IntValue(0), NoInt),
      Stored({"PING_TARGETS"}, NoTargets, << >>, NoInt, NoInt) }

\* module initialisation, lines 162-186, with the settings file as stored and
\* the environment's defaults; ok is FALSE where the import raises
ModuleInit(stored) ==
    LET has(k) == k \in stored.keys
        initial == IF has("PING_TARGETS") THEN stored.PING_TARGETS
                   ELSE IF has("PING_TARGET")
                        THEN [kind |-> "list", s |-> << >>,
                              items |-> << stored.PING_TARGET >>]
                        ELSE _BASE_PING_TARGETS_RAW
        ts == _normalize_targets(initial)
        pi == _coerce_positive_int(
                  IF has("POLL_INTERVAL") THEN stored.POLL_INTERVAL
                  ELSE IntValue(_BASE_POLL_INTERVAL),
                  MIN_SECONDS, MAX_POLL_INTERVAL)
        pt == _coerce_positive_int(
                  IF has("PING_TIMEOUT") THEN stored.PING_TIMEOUT
                  ELSE IntValue(_BASE_PING_TIMEOUT),
                  MIN_SECONDS, MAX_PING_TIMEOUT)
    IN  [ok |-> ts.ok /\ pi.ok /\ pt.ok,
         cfg |-> [targets |-> ts.v, interval |-> pi.v,
                  timeout |-> IF pt.v > pi.v THEN pi.v ELSE pt.v]]

VARIABLES
    pc,             \* position of the monitor thread in _run_loop
    was_up,         \* _run_loop local
    up,             \* _run_loop local: the resolver's result of this cycle
    now,            \* _run_loop local: time.time() of this cycle
    targets,        \* _is_internet_up argument (config.PING_TARGETS as read)
    timeout_seconds,\* _is_internet_up argument (config.PING_TIMEOUT as read)
    idx,            \* position of the for loop of _is_internet_up
    sleep_for,      \* argument of time.sleep (config.POLL_INTERVAL as read)
    _current_status,\* monitor._current_status
    _lock,          \* monitor._lock: None when free, else the holder
    clock,          \* time.time()
    downtime,       \* table downtime, in id order
    status_log,     \* table status_log, in id order
    rpc,            \* position of each get_status() caller
    snap,           \* the dict each get_status() caller got last
    PING_TARGETS,   \* config.PING_TARGETS
    POLL_INTERVAL,  \* config.POLL_INTERVAL
    PING_TIMEOUT,   \* config.PING_TIMEOUT
    _LOCK,          \* config._LOCK: None when free, else held by the updater
    settings_file,  \* the JSON object in heimdall.settings.json ({} when absent)
    upc,            \* position of the update_runtime_config caller
    next_cfg,       \* next_targets, next_interval, next_timeout of the update
    hist,           \* history: the values assigned to was_up, in order
    cyc,            \* history: what held when the current cycle began (cfgs: the
                    \* configuration committed then, and the one being committed)
    released,       \* history: _current_status at each release of _lock by the loop
    cfg_committed,  \* history: the configuration at the last release of config._LOCK
    cycles,         \* history: cycles begun
    updates,        \* history: update_runtime_config calls begun
    probed,         \* history: the _ping_host calls of the current _is_internet_up
    req,            \* history: the last update_runtime_config call and its outcome
    cfg_seen,       \* the dict the last get_runtime_config() returned
    txn,            \* the connection of the storage write in progress
    seen,           \* the tables as another connection read them last
    commits,        \* history: the tables after each commit
    recent,         \* the last get_recent_downtimes call and its result
    stats,          \* the last get_uptime_stats call and its result
    restarts,       \* history: process restarts
    started,        \* monitor threads spawned by start_monitor in this process
    schema          \* the tables exist (init_db has run)

vars == << pc, was_up, up, now, targets, timeout_seconds, idx, sleep_for,
           _current_status, _lock, clock, downtime, status_log, rpc, snap,
           PING_TARGETS, POLL_INTERVAL, PING_TIMEOUT, _LOCK, settings_file,
           upc, next_cfg, hist, cyc, released, cfg_committed, cycles, updates,
           probed, req, cfg_seen, txn, seen, commits, recent, stats, restarts,
           started, schema >>

loopVars == << pc, was_up, up, now, targets, timeout_seconds, idx, sleep_for >>
storeVars == << downtime, status_log >>
readerVars == << rpc, snap >>
configVars == << PING_TARGETS, POLL_INTERVAL, PING_TIMEOUT, _LOCK,
                 settings_file, upc, next_cfg, cfg_committed, updates >>
histVars == << hist, cyc, released, cycles >>
updVars == << req, cfg_seen >>
dbVars == << txn, seen, commits, recent, stats >>
procVars == << restarts, started, schema >>
auxVars == << updVars, dbVars, procVars >>

(* ------------------------------ database.py --------------------------- *)

OpenRows(dt) == { i \in 1 .. Len(dt) : dt[i].ended_at = None }

ClosedRows(dt) == { i \in 1 .. Len(dt) : dt[i].ended_at # None }

\* INSERT INTO downtime (started_at, ended_at, created_at) VALUES (?, NULL, ?)
record_down(dt, t) ==
    Append(dt, [id |-> Len(dt) + 1, started_at |-> t, ended_at |-> None,
                created_at |-> t])

\* a query that orders the open rows by started_at ASC
LatestOpen_Earliest(dt) ==
    { i \in OpenRows(dt) :
        \A j \in OpenRows(dt) : dt[i].started_at <= dt[j].started_at }

\* SELECT id FROM downtime WHERE ended_at IS NULL ORDER BY started_at DESC LIMIT 1
\* (the order among rows of equal started_at is not determined by the query)
LatestOpen(dt) ==
    { i \in OpenRows(dt) :
        \A j \in OpenRows(dt) : dt[j].started_at <= dt[i].started_at }

\* a record_up whose UPDATE is never committed
record_up_NotCommitted(dt, t) == { dt }

\* the tables record_up can leave: UPDATE downtime SET ended_at = ? WHERE id = ?
record_up(dt, t) ==
    IF OpenRows(dt) = {}
    THEN { dt }
    ELSE { [dt EXCEPT ![i].ended_at = t] : i \in LatestOpen(dt) }

\* a log_status that stores the sample negated
log_status_Negated(log, u, t) ==
    Append(log, [id |-> Len(log) + 1, at |-> t,
                 up |-> IF u = True THEN 0 ELSE 1])

\* INSERT INTO status_log (at, up) VALUES (?, 1 if up else 0)
log_status(log, u, t) ==
    Append(log, [id |-> Len(log) + 1, at |-> t,
                 up |-> IF u = True THEN 1 ELSE 0])

\* a get_current_downtime whose query lacks WHERE ended_at IS NULL
get_current_downtime_NoWhere(dt) ==
    { [id |-> dt[i].id, started_at |-> dt[i].started_at,
       created_at |-> dt[i].created_at] :
      i \in { k \in 1 .. Len(dt) :
                \A j \in 1 .. Len(dt) : dt[j].started_at <= dt[k].started_at } }

\* the rows get_current_downtime can return; {} stands for None
get_current_downtime(dt) ==
    { [id |-> dt[i].id, started_at |-> dt[i].started_at,
       created_at |-> dt[i].created_at] : i \in LatestOpen(dt) }

\* the (started_at, ended_at) pairs a stored downtime row can hold, an
\* interval that has ended or one still open
RowShapes ==
    { sh \in [s : 0 .. MaxTime - 1, e : { None } \cup (0 .. MaxTime - 1)] :
        sh.e = None \/ sh.e >= sh.s }

\* the downtime tables a database file can hold when the process starts:
\* ids in insertion order, any number of the rows open
Downtimes(rows) ==
    { [i \in DOMAIN f |-> [id |-> i, started_at |-> f[i].s, ended_at |-> f[i].e,
                           created_at |-> f[i].s]] :
      f \in UNION { [1 .. m -> RowShapes] : m \in 0 .. rows } }

StoredDowntimes == Downtimes(MaxRows)

\* the status_log tables a database file can hold: ids in insertion order
StoredLogs ==
    { [i \in DOMAIN f |-> [id |-> i, at |-> f[i].at, up |-> f[i].up]] :
      f \in UNION { [1 .. m -> [at : 0 .. MaxTime, up : { 0, 1 }]] :
                    m \in 0 .. MaxSamples } }

\* ten samples of one day, seven of them up
ExampleLog ==
    [i \in 1 .. 10 |-> [id |-> i, at |-> MaxTime, up |-> IF i <= 7 THEN 1 ELSE 0]]

Min(a, b) == IF a <= b THEN a ELSE b

\* a query with ORDER BY started_at ASC
NewestFirst_OldestFirst(dt, s) ==
    \A i, j \in DOMAIN s : i < j => dt[s[i]].started_at <= dt[s[j]].started_at

\* ORDER BY started_at DESC, of the row numbers s
NewestFirst(dt, s) ==
    \A i, j \in DOMAIN s : i < j => dt[s[i]].started_at >= dt[s[j]].started_at

\* the orders in which WHERE ended_at IS NOT NULL ORDER BY started_at DESC
\* can deliver the rows (rows of equal started_at come in either order)
RecentOrders(dt) ==
    { s \in [1 .. Cardinality(ClosedRows(dt)) -> ClosedRows(dt)] :
        /\ \A i, j \in DOMAIN s : i # j => s[i] # s[j]
        /\ NewestFirst(dt, s) }

DefaultLimit == 50

\* the lists get_recent_downtimes(limit) can return, limit >= 0
get_recent_downtimes(dt, limit) ==
    { [i \in 1 .. Min(limit, Cardinality(ClosedRows(dt))) |-> dt[s[i]]] :
      s \in RecentOrders(dt) }

DaySeconds == 24 * 3600

\* a query without the WHERE clause
InWindow_Everything(log, t) == 1 .. Len(log)

\* SELECT at, up FROM status_log WHERE at >= ? with day_ago = t - 24 * 3600
InWindow(log, t) == { i \in 1 .. Len(log) : log[i].at >= t - DaySeconds }

\* round(up_count / total * 100, 2), in hundredths of a percent; no quotient
\* of fewer than 32 samples lies halfway between two hundredths
Round2(up_count, total) == (20000 * up_count + total) \div (2 * total)

\* get_uptime_stats, lines 115-128, with uptime_pct in hundredths
get_uptime_stats(log, t, interval) ==
    LET rows == InWindow(log, t)
        total == Cardinality(rows)
        up_count == Cardinality({ i \in rows : log[i].up # 0 })
    IN  IF total = 0
        THEN [uptime_pct |-> None, samples |-> 0, downtime_seconds |-> None]
        ELSE [uptime_pct |-> Round2(up_count, total), samples |-> total,
              downtime_seconds |-> (total - up_count) * interval]

\* the tables after the statements of one write operation, before commit
Written(op, u, tables, t) ==
    CASE op = "record_down" ->
           { [tables EXCEPT !.downtime = record_down(tables.downtime, t)] }
      [] op = "record_up" ->
           { [tables EXCEPT !.downtime = d] : d \in record_up(tables.downtime, t) }
      [] op = "log_status" ->
           { [tables EXCEPT !.status_log = log_status(tables.status_log, u, t)] }

\* a connection whose close keeps the statements it never committed
CloseWithoutCommit_Kept(committed, pending) == pending

\* get_connection, lines 23-24: the body raised, conn.commit() is skipped and
\* conn.close() discards the statements of the connection
CloseWithoutCommit(committed, pending) == committed

(* ------------------------------ monitor.py ---------------------------- *)

\* a loop that also reports a transition on every cycle that finds the net down
IsTransition_EveryDown(w, u) == w # None /\ (w # u \/ u = False)

\* a loop that does not test was_up against None
IsTransition_NoNoneTest(w, u) == w # u

\* if was_up is not None and was_up != up
IsTransition(w, u) == w # None /\ w # u

\* a thread that enters without waiting for the lock
CanAcquire_NoWait(l) == TRUE

\* a lock that the monitor thread's hold does not close to other threads
CanAcquire_BesideTheLoop(l) == l = None \/ l = LoopId

\* with _lock: a thread enters when the lock is free
CanAcquire(l) == l = None

\* a monitor thread that writes the status without taking the lock
LoopAcquire_NotTaken(l) == l

\* the lock as the monitor thread leaves it on entering "with _lock"
LoopAcquire(l) == LoopId

\* a loop that stamps last_change on every cycle
Checked_AlsoChange(st, t) == [st EXCEPT !.last_check = t, !.last_change = t]

\* _current_status["last_check"] = now
Checked(st, t) == [st EXCEPT !.last_check = t]

\* _current_status["last_change"] = now
Changed(st, t) == [st EXCEPT !.last_change = t]

\* a with block that leaves the lock with its holder
WithExit_StillHeld(l) == l

\* lines 58-67, the end of "with _lock", by return or by exception: the lock
\* is released
WithExit(l) == None

\* a loop whose body runs once, after which the thread returns
LoopBack_Returns == "dead"

\* line 55, while True: after the sleep the thread begins the next cycle
LoopBack == "read_targets"

\* a resolver that answers False at the first target that fails
AfterPing_AllMustAnswer(i, ok) ==
    IF ok THEN [returns |-> FALSE, value |-> None, idx |-> i + 1]
          ELSE [returns |-> TRUE, value |-> False, idx |-> i]

\* lines 42-43, after _ping_host answered ok for targets[i]: return True, or
\* go on with the next target
AfterPing(i, ok) ==
    IF ok THEN [returns |-> TRUE, value |-> True, idx |-> i]
          ELSE [returns |-> FALSE, value |-> None, idx |-> i + 1]

InitStatus == [up |-> None, last_check |-> None, last_change |-> None]

CurrentConfig ==
    [targets |-> PING_TARGETS, interval |-> POLL_INTERVAL, timeout |-> PING_TIMEOUT]

NoTables == [downtime |-> << >>, status_log |-> << >>]

\* the state outside the monitor thread, the status record and the
\* configuration, with the tables as given
AuxInit(cfg, tables) ==
    /\ probed = << >>
    /\ req = [n |-> 0, payload |-> Body({}, NoTargets, NoTarget, NoInt, NoInt),
              before |-> cfg, raised |-> "none"]
    /\ cfg_seen = [called |-> FALSE, cfg |-> cfg]
    /\ txn = [state |-> "idle", op |-> "none", at |-> None,
              before |-> tables, pending |-> tables]
    /\ seen = [during |-> "idle", tables |-> tables]
    /\ commits = { tables }
    /\ recent = [limit |-> None, of |-> tables.downtime, rows |-> << >>]
    /\ stats = [called |-> FALSE, at |-> None, of |-> tables.status_log,
                interval |-> None, uptime_pct |-> None, samples |-> 0,
                downtime_seconds |-> None]
    /\ restarts = 0

\* the process after import, at time t
ImportAt(cfg, tables, t) ==
    /\ AuxInit(cfg, tables)
    /\ was_up = None
    /\ up = None
    /\ now = None
    /\ targets = << >>
    /\ timeout_seconds = None
    /\ idx = 0
    /\ sleep_for = None
    /\ _current_status = InitStatus
    /\ _lock = None
    /\ clock = t
    /\ downtime = tables.downtime
    /\ status_log = tables.status_log
    /\ rpc = [r \in Readers |-> "idle"]
    /\ snap = [r \in Readers |-> InitStatus]
    /\ PING_TARGETS = cfg.targets
    /\ POLL_INTERVAL = cfg.interval
    /\ PING_TIMEOUT = cfg.timeout
    /\ _LOCK = None
    /\ settings_file = [keys |-> {}, cfg |-> cfg]
    /\ upc = "idle"
    /\ next_cfg = cfg
    /\ hist = << >>
    /\ cyc = [n |-> 0, was |-> None, status0 |-> InitStatus,
              downtime0 |-> tables.downtime, log0 |-> tables.status_log,
              n_down |-> 0, n_up |-> 0, cfgs |-> { cfg }]
    /\ released = { InitStatus }
    /\ cfg_committed = cfg
    /\ cycles = 0
    /\ updates = 0

\* the process after import and start_monitor(), its monitor thread about to
\* begin the first cycle
InitAt(cfg, tables, t) ==
    /\ ImportAt(cfg, tables, t)
    /\ started = 1
    /\ schema = TRUE
    /\ pc = "read_targets"

\* the same, the process starting at time 0
InitFrom(cfg, tables) == InitAt(cfg, tables, 0)

\* no settings file, an empty database
Init == InitFrom(InitialConfig, NoTables)

\* a settings file the import accepts, an empty database
InitUpd ==
    \E stored \in StoredFiles :
        /\ ModuleInit(stored).ok
        /\ InitFrom(ModuleInit(stored).cfg, NoTables)

\* the clock advances on its own; it never goes back
Tick ==
    /\ clock < MaxTime
    /\ clock' = clock + 1
    /\ UNCHANGED << auxVars, probed, loopVars, _current_status, _lock, storeVars, readerVars,
                    configVars, histVars >>

\* line 56, first argument: config.PING_TARGETS is read; a cycle begins
ReadTargets ==
    /\ pc = "read_targets"
    /\ cycles < MaxCycles
    /\ targets' = PING_TARGETS
    /\ pc' = "read_timeout"
    /\ cycles' = cycles + 1
    /\ cyc' = [n |-> cycles + 1, was |-> was_up, status0 |-> _current_status,
               downtime0 |-> downtime, log0 |-> status_log,
               n_down |-> 0, n_up |-> 0,
               cfgs |-> { cfg_committed } \cup
                        (IF upc = "idle" THEN {} ELSE { next_cfg })]
    /\ UNCHANGED << auxVars, probed, was_up, up, now, timeout_seconds, idx, sleep_for,
                    _current_status, _lock, clock, storeVars, readerVars,
                    configVars, hist, released >>

\* line 56, second argument: config.PING_TIMEOUT is read, _is_internet_up is entered
ReadTimeout ==
    /\ pc = "read_timeout"
    /\ timeout_seconds' = PING_TIMEOUT
    /\ idx' = 1
    /\ probed' = << >>
    /\ pc' = "ping"
    /\ UNCHANGED << auxVars, was_up, up, now, targets, sleep_for, _current_status, _lock,
                    clock, storeVars, readerVars, configVars, histVars >>

\* lines 41-44: one iteration of the for loop; _ping_host answers ok
Ping ==
    /\ pc = "ping"
    /\ IF idx > Len(targets)
       THEN /\ up' = False
            /\ pc' = "time"
            /\ UNCHANGED << idx, probed >>
       ELSE \E ok \in BOOLEAN :
              LET after == AfterPing(idx, ok) IN
                /\ probed' = Append(probed, [target |-> targets[idx], ok |-> ok])
                /\ idx' = after.idx
                /\ IF after.returns
                   THEN /\ up' = after.value
                        /\ pc' = "time"
                   ELSE UNCHANGED << up, pc >>
    /\ UNCHANGED << auxVars, was_up, now, targets, timeout_seconds, sleep_for,
                    _current_status, _lock, clock, storeVars, readerVars,
                    configVars, histVars >>

\* line 57: now = time.time()
ReadTime ==
    /\ pc = "time"
    /\ now' = clock
    /\ pc' = "acquire"
    /\ UNCHANGED << auxVars, probed, was_up, up, targets, timeout_seconds, idx, sleep_for,
                    _current_status, _lock, clock, storeVars, readerVars,
                    configVars, histVars >>

\* line 58: with _lock
Acquire ==
    /\ pc = "acquire"
    /\ CanAcquire(_lock)
    /\ _lock' = LoopAcquire(_lock)
    /\ pc' = "set_up"
    /\ UNCHANGED << auxVars, probed, was_up, up, now, targets, timeout_seconds, idx, sleep_for,
                    _current_status, clock, storeVars, readerVars, configVars,
                    histVars >>

\* line 59: _current_status["up"] = up
SetUp ==
    /\ pc = "set_up"
    /\ _current_status' = [_current_status EXCEPT !.up = up]
    /\ pc' = "set_check"
    /\ UNCHANGED << auxVars, probed, was_up, up, now, targets, timeout_seconds, idx, sleep_for,
                    _lock, clock, storeVars, readerVars, configVars, histVars >>

\* lines 60-62: _current_status["last_check"] = now, and last_change on a transition
SetCheck ==
    /\ pc = "set_check"
    /\ IF IsTransition(was_up, up)
       THEN /\ _current_status' = Changed(Checked(_current_status, now), now)
            /\ pc' = "record"
       ELSE /\ _current_status' = Checked(_current_status, now)
            /\ pc' = "set_was"
    /\ UNCHANGED << auxVars, probed, was_up, up, now, targets, timeout_seconds, idx, sleep_for,
                    _lock, clock, storeVars, readerVars, configVars, histVars >>

\* lines 63-66 when the write commits: database.record_up() or database.record_down()
Record ==
    /\ pc = "record"
    /\ IF up = True
       THEN /\ \E dt \in record_up(downtime, clock) : downtime' = dt
            /\ cyc' = [cyc EXCEPT !.n_up = @ + 1]
       ELSE /\ downtime' = record_down(downtime, clock)
            /\ cyc' = [cyc EXCEPT !.n_down = @ + 1]
    /\ pc' = "set_was"
    /\ UNCHANGED << auxVars, probed, was_up, up, now, targets, timeout_seconds, idx, sleep_for,
                    _current_status, _lock, clock, status_log, readerVars,
                    configVars, hist, released, cycles >>

\* lines 63-66 when sqlite3 raises: nothing is committed, "with _lock" releases
\* the lock and the exception ends the thread
RecordFails ==
    /\ pc = "record"
    /\ cyc' = IF up = True THEN [cyc EXCEPT !.n_up = @ + 1]
                           ELSE [cyc EXCEPT !.n_down = @ + 1]
    /\ _lock' = WithExit(_lock)
    /\ released' = released \cup { _current_status }
    /\ pc' = "dead"
    /\ UNCHANGED << auxVars, probed, was_up, up, now, targets, timeout_seconds, idx, sleep_for,
                    _current_status, clock, storeVars, readerVars, configVars,
                    hist, cycles >>

\* line 67 and the end of the with block: was_up = up, the lock is released
SetWasUp ==
    /\ pc = "set_was"
    /\ was_up' = up
    /\ hist' = Append(hist, up)
    /\ _lock' = WithExit(_lock)
    /\ released' = released \cup { _current_status }
    /\ pc' = "log"
    /\ UNCHANGED << auxVars, probed, up, now, targets, timeout_seconds, idx, sleep_for,
                    _current_status, clock, storeVars, readerVars, configVars,
                    cyc, cycles >>

\* line 68 when the write commits: database.log_status(up)
LogStatus ==
    /\ pc = "log"
    /\ status_log' = log_status(status_log, up, clock)
    /\ pc' = "read_interval"
    /\ UNCHANGED << auxVars, probed, was_up, up, now, targets, timeout_seconds, idx, sleep_for,
                    _current_status, _lock, clock, downtime, readerVars,
                    configVars, histVars >>

\* line 68 when sqlite3 raises: nothing is committed and the thread ends
LogStatusFails ==
    /\ pc = "log"
    /\ pc' = "dead"
    /\ UNCHANGED << auxVars, probed, was_up, up, now, targets, timeout_seconds, idx, sleep_for,
                    _current_status, _lock, clock, storeVars, readerVars,
                    configVars, histVars >>

\* line 69, the argument: config.POLL_INTERVAL is read and time.sleep is entered
ReadInterval ==
    /\ pc = "read_interval"
    /\ sleep_for' = POLL_INTERVAL
    /\ pc' = "sleep"
    /\ UNCHANGED << auxVars, probed, was_up, up, now, targets, timeout_seconds, idx,
                    _current_status, _lock, clock, storeVars, readerVars,
                    configVars, histVars >>

\* line 69: time.sleep returns and the while loop goes round
Wake ==
    /\ pc = "sleep"
    /\ pc' = LoopBack
    /\ UNCHANGED << auxVars, probed, was_up, up, now, targets, timeout_seconds, idx, sleep_for,
                    _current_status, _lock, clock, storeVars, readerVars,
                    configVars, histVars >>

\* get_status, line 49: with _lock
GetStatusEnter(r) ==
    /\ rpc[r] = "idle"
    /\ CanAcquire(_lock)
    /\ _lock' = r
    /\ rpc' = [rpc EXCEPT ![r] = "copy"]
    /\ UNCHANGED << auxVars, probed, loopVars, _current_status, clock, storeVars, snap,
                    configVars, histVars >>

\* get_status, line 50: return dict(_current_status), the lock is released
GetStatusReturn(r) ==
    /\ rpc[r] = "copy"
    /\ snap' = [snap EXCEPT ![r] = _current_status]
    /\ _lock' = None
    /\ rpc' = [rpc EXCEPT ![r] = "idle"]
    /\ UNCHANGED << auxVars, probed, loopVars, _current_status, clock, storeVars, configVars,
                    histVars >>

(* ------------------------ update_runtime_config ----------------------- *)

UpdaterId == 1

\* line 141: _validate_update raises, nothing else is executed
UpdateInvalid ==
    /\ upc = "idle"
    /\ updates < MaxUpdates
    /\ \E payload \in Payloads :
         /\ ~_validate_update(payload).ok
         /\ req' = [n |-> updates + 1, payload |-> payload,
                    before |-> CurrentConfig, raised |-> "ValueError"]
    /\ updates' = updates + 1
    /\ UNCHANGED << cfg_seen, dbVars, procVars, probed, loopVars, _current_status, _lock, clock, storeVars,
                    readerVars, PING_TARGETS, POLL_INTERVAL, PING_TIMEOUT,
                    _LOCK, settings_file, upc, next_cfg, cfg_committed,
                    histVars >>

\* lines 143-145: normalized.get(key, the committed value)
NextConfig(normalized) ==
    [targets |-> IF "PING_TARGETS" \in normalized.keys
                 THEN normalized.PING_TARGETS ELSE PING_TARGETS,
     interval |-> IF "POLL_INTERVAL" \in normalized.keys
                  THEN normalized.POLL_INTERVAL ELSE POLL_INTERVAL,
     timeout |-> IF "PING_TIMEOUT" \in normalized.keys
                 THEN normalized.PING_TIMEOUT ELSE PING_TIMEOUT]

\* an update that does not compare the resulting timeout with the interval
TimeoutExceeds_NotCompared(next) == FALSE

\* line 146: if next_timeout > next_interval
TimeoutExceeds(next) == next.timeout > next.interval

\* lines 141-147 when line 147 raises: the lock is taken and released
UpdateRefused ==
    /\ upc = "idle"
    /\ updates < MaxUpdates
    /\ _LOCK = None
    /\ \E payload \in Payloads :
         LET normalized == _validate_update(payload) IN
           /\ normalized.ok
           /\ TimeoutExceeds(NextConfig(normalized))
           /\ req' = [n |-> updates + 1, payload |-> payload,
                      before |-> CurrentConfig, raised |-> "ValueError"]
    /\ updates' = updates + 1
    /\ UNCHANGED << cfg_seen, dbVars, procVars, probed, loopVars, _current_status, _lock, clock, storeVars,
                    readerVars, PING_TARGETS, POLL_INTERVAL, PING_TIMEOUT,
                    _LOCK, settings_file, upc, next_cfg, cfg_committed,
                    histVars >>

\* lines 141-147 when nothing raises: next_targets, next_interval, next_timeout
UpdateEnter ==
    /\ upc = "idle"
    /\ updates < MaxUpdates
    /\ _LOCK = None
    /\ \E payload \in Payloads :
         LET normalized == _validate_update(payload) IN
           /\ normalized.ok
           /\ ~TimeoutExceeds(NextConfig(normalized))
           /\ next_cfg' = NextConfig(normalized)
           /\ req' = [n |-> updates + 1, payload |-> payload,
                      before |-> CurrentConfig, raised |-> "none"]
    /\ _LOCK' = UpdaterId
    /\ upc' = "assign_targets"
    /\ updates' = updates + 1
    /\ UNCHANGED << cfg_seen, dbVars, procVars, probed, loopVars, _current_status, _lock, clock, storeVars,
                    readerVars, PING_TARGETS, POLL_INTERVAL, PING_TIMEOUT,
                    settings_file, cfg_committed, histVars >>

\* line 148: PING_TARGETS = next_targets
AssignTargets ==
    /\ upc = "assign_targets"
    /\ PING_TARGETS' = next_cfg.targets
    /\ upc' = "assign_interval"
    /\ UNCHANGED << auxVars, probed, loopVars, _current_status, _lock, clock, storeVars,
                    readerVars, POLL_INTERVAL, PING_TIMEOUT, _LOCK,
                    settings_file, next_cfg, cfg_committed, updates, histVars >>

\* line 149: POLL_INTERVAL = next_interval
AssignInterval ==
    /\ upc = "assign_interval"
    /\ POLL_INTERVAL' = next_cfg.interval
    /\ upc' = "assign_timeout"
    /\ UNCHANGED << auxVars, probed, loopVars, _current_status, _lock, clock, storeVars,
                    readerVars, PING_TARGETS, PING_TIMEOUT, _LOCK,
                    settings_file, next_cfg, cfg_committed, updates, histVars >>

\* line 150: PING_TIMEOUT = next_timeout
AssignTimeout ==
    /\ upc = "assign_timeout"
    /\ PING_TIMEOUT' = next_cfg.timeout
    /\ upc' = "persist"
    /\ UNCHANGED << auxVars, probed, loopVars, _current_status, _lock, clock, storeVars,
                    readerVars, PING_TARGETS, POLL_INTERVAL, _LOCK,
                    settings_file, next_cfg, cfg_committed, updates, histVars >>

\* lines 151-159: _write_settings_file, return, config._LOCK is released
Persist ==
    /\ upc = "persist"
    /\ settings_file' = [keys |-> {"PING_TARGETS", "POLL_INTERVAL", "PING_TIMEOUT"},
                         cfg |-> CurrentConfig]
    /\ _LOCK' = None
    /\ cfg_committed' = CurrentConfig
    /\ upc' = "idle"
    /\ UNCHANGED << auxVars, probed, loopVars, _current_status, _lock, clock, storeVars,
                    readerVars, PING_TARGETS, POLL_INTERVAL, PING_TIMEOUT,
                    next_cfg, updates, histVars >>

\* lines 151-158 when the write raises OSError: the file is as it was or is
\* left unreadable (read back as {}), config._LOCK is released
PersistFails ==
    /\ upc = "persist"
    /\ settings_file' \in { settings_file, [keys |-> {}, cfg |-> InitialConfig] }
    /\ _LOCK' = None
    /\ cfg_committed' = CurrentConfig
    /\ req' = [req EXCEPT !.raised = "OSError"]
    /\ upc' = "idle"
    /\ UNCHANGED << cfg_seen, dbVars, procVars, probed, loopVars, _current_status, _lock, clock, storeVars,
                    readerVars, PING_TARGETS, POLL_INTERVAL, PING_TIMEOUT,
                    next_cfg, updates, histVars >>

\* get_runtime_config, lines 134-136: with _LOCK: return _serialize_runtime()
GetRuntimeConfig ==
    /\ _LOCK = None
    /\ cfg_seen' = [called |-> TRUE, cfg |-> CurrentConfig]
    /\ UNCHANGED << req, dbVars, procVars, probed, loopVars, _current_status,
                    _lock, clock, storeVars, readerVars, configVars, histVars >>

\* a write operation opens a connection and executes its statements (lines
\* 14-21 and the body of record_down, record_up or log_status); nothing is
\* committed yet
TxnBegin ==
    /\ txn.state # "open"
    /\ \E op \in { "record_down", "record_up", "log_status" }, u \in { True, False } :
         \E pending \in Written(op, u, [downtime |-> downtime,
                                         status_log |-> status_log], clock) :
           /\ Len(pending.downtime) + Len(pending.status_log) <= MaxRows
           /\ txn' = [state |-> "open", op |-> op, at |-> clock,
                      before |-> [downtime |-> downtime, status_log |-> status_log],
                      pending |-> pending]
    /\ UNCHANGED << updVars, seen, commits, recent, stats, procVars, probed,
                    loopVars, _current_status, _lock, clock, storeVars,
                    readerVars, configVars, histVars >>

\* line 22: conn.commit()
TxnCommit ==
    /\ txn.state = "open"
    /\ downtime' = txn.pending.downtime
    /\ status_log' = txn.pending.status_log
    /\ commits' = commits \cup { txn.pending }
    /\ txn' = [txn EXCEPT !.state = "committed"]
    /\ UNCHANGED << updVars, seen, recent, stats, procVars, probed, loopVars,
                    _current_status, _lock, clock, readerVars, configVars,
                    histVars >>

\* the body raises (or the commit does): lines 23-24 close the connection
TxnFail ==
    /\ txn.state = "open"
    /\ LET left == CloseWithoutCommit([downtime |-> downtime,
                                       status_log |-> status_log], txn.pending)
       IN  /\ downtime' = left.downtime
           /\ status_log' = left.status_log
    /\ txn' = [txn EXCEPT !.state = "failed"]
    /\ UNCHANGED << updVars, seen, commits, recent, stats, procVars, probed,
                    loopVars, _current_status, _lock, clock, readerVars,
                    configVars, histVars >>

\* another connection reads both tables
ReadStore ==
    /\ seen' = [during |-> txn.state,
                tables |-> [downtime |-> downtime, status_log |-> status_log]]
    /\ UNCHANGED << updVars, txn, commits, recent, stats, procVars, probed,
                    loopVars, _current_status, _lock, clock, storeVars,
                    readerVars, configVars, histVars >>

\* get_recent_downtimes(limit), lines 81-94, called once
GetRecentDowntimes ==
    /\ recent.limit = None
    /\ \E limit \in (0 .. MaxRows + 1) \cup { DefaultLimit } :
         \E rows \in get_recent_downtimes(downtime, limit) :
           recent' = [limit |-> limit, of |-> downtime, rows |-> rows]
    /\ UNCHANGED << updVars, txn, seen, commits, stats, procVars, probed,
                    loopVars, _current_status, _lock, clock, storeVars,
                    readerVars, configVars, histVars >>

\* get_uptime_stats(), lines 107-128, called once
GetUptimeStats ==
    /\ ~stats.called
    /\ LET result == get_uptime_stats(status_log, clock, POLL_INTERVAL)
       IN  stats' = [called |-> TRUE, at |-> clock, of |-> status_log,
                     interval |-> POLL_INTERVAL,
                     uptime_pct |-> result.uptime_pct,
                     samples |-> result.samples,
                     downtime_seconds |-> result.downtime_seconds]
    /\ UNCHANGED << updVars, txn, seen, commits, recent, procVars, probed,
                    loopVars, _current_status, _lock, clock, storeVars,
                    readerVars, configVars, histVars >>

\* the process ends, at any point, and is started again: the database file
\* and the settings file are as they were, everything in memory is new
Restart ==
    /\ restarts < MaxRestarts
    /\ restarts' = restarts + 1
    /\ pc' = "read_targets"
    /\ was_up' = None
    /\ up' = None
    /\ now' = None
    /\ targets' = << >>
    /\ timeout_seconds' = None
    /\ idx' = 0
    /\ sleep_for' = None
    /\ _current_status' = InitStatus
    /\ _lock' = None
    /\ rpc' = [r \in Readers |-> "idle"]
    /\ snap' = [r \in Readers |-> InitStatus]
    /\ probed' = << >>
    /\ hist' = << >>
    /\ cyc' = [n |-> 0, was |-> None, status0 |-> InitStatus,
               downtime0 |-> downtime, log0 |-> status_log,
               n_down |-> 0, n_up |-> 0, cfgs |-> { cfg_committed }]
    /\ released' = { InitStatus }
    /\ cycles' = 0
    /\ started' = 1
    /\ schema' = TRUE
    /\ UNCHANGED << updVars, dbVars, clock, storeVars, configVars >>

\* start_monitor, lines 72-77: init_db(), then a new thread running _run_loop
StartMonitor ==
    /\ started < MaxStarts
    /\ schema' = TRUE
    /\ started' = started + 1
    /\ pc' = IF started = 0 THEN "read_targets" ELSE pc
    /\ UNCHANGED << updVars, dbVars, restarts, probed, was_up, up, now, targets,
                    timeout_seconds, idx, sleep_for, _current_status, _lock,
                    clock, storeVars, readerVars, configVars, histVars >>

Next ==
    \/ Tick
    \/ ReadTargets \/ ReadTimeout \/ Ping \/ ReadTime \/ Acquire \/ SetUp
    \/ SetCheck \/ Record \/ RecordFails \/ SetWasUp \/ LogStatus
    \/ LogStatusFails \/ ReadInterval \/ Wake
    \/ \E r \in Readers : GetStatusEnter(r)
    \/ \E r \in Readers : GetStatusReturn(r)

Spec == Init /\ [][Next]_vars

\* the monitor thread and a caller of update_runtime_config
NextCfg ==
    \/ ReadTargets \/ ReadTimeout \/ Ping \/ ReadTime \/ Acquire \/ SetUp
    \/ SetCheck \/ Record \/ RecordFails \/ SetWasUp \/ LogStatus
    \/ LogStatusFails \/ ReadInterval \/ Wake
    \/ UpdateInvalid \/ UpdateRefused \/ UpdateEnter
    \/ AssignTargets \/ AssignInterval \/ AssignTimeout
    \/ Persist \/ PersistFails

SpecCfg == Init /\ [][NextCfg]_vars

\* callers of update_runtime_config and get_runtime_config
NextUpd ==
    \/ UpdateInvalid \/ UpdateRefused \/ UpdateEnter
    \/ AssignTargets \/ AssignInterval \/ AssignTimeout
    \/ Persist \/ PersistFails
    \/ GetRuntimeConfig

SpecUpd == InitUpd /\ [][NextUpd]_vars

\* the monitor thread alone, under each configuration an import can produce
NextLoop ==
    \/ ReadTargets \/ ReadTimeout \/ Ping \/ ReadTime \/ Acquire \/ SetUp
    \/ SetCheck \/ Record \/ RecordFails \/ SetWasUp \/ LogStatus
    \/ LogStatusFails \/ ReadInterval \/ Wake

SpecLoop == InitUpd /\ [][NextLoop]_vars

\* a database file with any stored downtime rows
InitStore ==
    \E dt \in StoredDowntimes :
        InitAt(InitialConfig, [downtime |-> dt, status_log |-> << >>], MaxTime)

\* the write operations of database.py, each through its own connection,
\* and a reader on another connection
NextStore ==
    \/ TxnBegin \/ TxnCommit \/ TxnFail \/ ReadStore

SpecStore == InitStore /\ [][NextStore]_vars

\* a database file with any stored rows, opened a day or more after they
\* were written
InitQuery ==
    \/ \E dt \in Downtimes(MaxRows + 1) :
          InitAt(InitialConfig, [downtime |-> dt, status_log |-> << >>],
                 DaySeconds)
    \/ \E log \in StoredLogs \cup { ExampleLog }, t \in 0 .. MaxTime :
          InitAt(InitialConfig, [downtime |-> << >>, status_log |-> log],
                 DaySeconds + t)

\* the read operations of database.py
NextQuery ==
    \/ GetRecentDowntimes \/ GetUptimeStats

SpecQuery == InitQuery /\ [][NextQuery]_vars

\* the monitor thread, and the process ending and starting again
NextRestart ==
    \/ ReadTargets \/ ReadTimeout \/ Ping \/ ReadTime \/ Acquire \/ SetUp
    \/ SetCheck \/ Record \/ RecordFails \/ SetWasUp \/ LogStatus
    \/ LogStatusFails \/ ReadInterval \/ Wake
    \/ Restart

SpecRestart == Init /\ [][NextRestart]_vars

\* the process after import, before any call of start_monitor
InitStart ==
    /\ ImportAt(InitialConfig, NoTables, 0)
    /\ started = 0
    /\ schema = FALSE
    /\ pc = "not_started"

\* calls of start_monitor, and the thread the first call started
NextStart ==
    \/ StartMonitor
    \/ ReadTargets \/ ReadTimeout \/ Ping \/ ReadTime \/ Acquire \/ SetUp
    \/ SetCheck \/ Record \/ SetWasUp \/ LogStatus \/ ReadInterval \/ Wake

SpecStart == InitStart /\ [][NextStart]_vars

\* the steps of the monitor thread that wait for nothing but the thread's
\* turn, every probe, storage write and sleep returning
LoopStep ==
    \/ ReadTargets \/ ReadTimeout \/ Ping \/ ReadTime \/ SetUp \/ SetCheck
    \/ Record \/ SetWasUp \/ LogStatus \/ ReadInterval \/ Wake

\* the monitor thread with no storage failure, and get_status callers
NextLive ==
    \/ LoopStep
    \/ Acquire
    \/ \E r \in Readers : GetStatusEnter(r)
    \/ \E r \in Readers : GetStatusReturn(r)

\* fair scheduling: the monitor thread gets its turn, it gets _lock if the
\* lock is free again and again, and a get_status call that holds the lock
\* returns
SpecLive ==
    /\ Init
    /\ [][NextLive]_vars
    /\ WF_vars(LoopStep)
    /\ SF_vars(Acquire)
    /\ \A r \in Readers : WF_vars(GetStatusReturn(r))

(* ------------------------------ properties ---------------------------- *)

\* the positions of the cycles whose result differs from the previous cycle's
Flips(h) == { i \in 2 .. Len(h) : h[i - 1] # h[i] }

\* the down->up transitions in a history of results
DownUps(h) == { i \in Flips(h) : h[i] = True }

\* the down->up transitions that end an outage which began with an up->down one
DownUpsAfterUp(h) == { i \in DownUps(h) : \E j \in 1 .. i - 1 : h[j] = True }

\* the monitor thread is between two cycles: asleep or about to begin the next
BetweenCycles == pc \in {"sleep", "read_targets"}

\* the monitor thread is past the status update of the cycle it began last
AfterUpdate ==
    \/ pc \in {"set_was", "log", "read_interval", "sleep", "dead"}
    \/ pc = "read_targets" /\ cycles > 0

\* the monitor thread has begun a cycle and not yet entered its status update
BeforeUpdate == pc \in {"read_timeout", "ping", "time", "acquire"}

\* C1: with one monitor loop started on an empty store, at most one downtime
\* row has a null ended_at, in every reachable state
C1_AtMostOneOpenRow == Cardinality(OpenRows(downtime)) <= 1

C1_Witness ==
    /\ Cardinality(OpenRows(downtime)) = 1
    /\ hist = << True, False, False >>

\* C2 as stated: the number of closed downtime rows equals the number of
\* down->up transitions among the results the loop has processed, also when
\* the first result is down
C2_ClosedEqualsDownUps ==
    pc # "set_was" =>
        Cardinality(ClosedRows(downtime)) = Cardinality(DownUps(hist))

\* C2 amended: the number of closed downtime rows equals the number of
\* down->up transitions that follow an earlier up result, among the cycles
\* whose status update ran to its end; the down->up transition ending a run
\* of downs that began at the first cycle closes no row
C2_ClosedEqualsDownUpsAfterUp ==
    pc # "set_was" =>
        Cardinality(ClosedRows(downtime)) = Cardinality(DownUpsAfterUp(hist))

C2_Witness ==
    /\ pc = "log"
    /\ hist = << True, False, True >>
    /\ Cardinality(ClosedRows(downtime)) = 1

\* C3: between cycles get_current_downtime returns a row exactly when the last
\* transition the loop completed was up->down; with no transition it returns none
C3_CurrentDowntimeIffLastTransitionDown ==
    BetweenCycles =>
        ( get_current_downtime(downtime) # {}
            <=> ( Flips(hist) # {} /\ hist[Len(hist)] = False ) )

C3_Witness ==
    /\ pc = "sleep"
    /\ get_current_downtime(downtime) # {}
    /\ hist = << True, False >>

\* C4: a cycle calls record_down once exactly when the previous result was up
\* and its own is down, record_up once exactly when the previous result was
\* down and its own is up, and otherwise leaves the downtime table as it was
C4_OneCallPerTransition ==
    /\ AfterUpdate =>
        /\ cyc.n_down = (IF cyc.was = True /\ up = False THEN 1 ELSE 0)
        /\ cyc.n_up = (IF cyc.was = False /\ up = True THEN 1 ELSE 0)
        /\ (cyc.was = None \/ cyc.was = up) => downtime = cyc.downtime0
    /\ (BeforeUpdate \/ pc \in {"set_up", "set_check", "record"}) =>
        /\ cyc.n_down = 0
        /\ cyc.n_up = 0
        /\ downtime = cyc.downtime0

C4_Witness ==
    /\ pc = "log"
    /\ cyc.was = False
    /\ up = True
    /\ cyc.n_up = 1
    /\ downtime # cyc.downtime0

\* C5: each cycle sets up and last_check; last_change becomes the cycle's check
\* time in a cycle that detects a transition and keeps its value in any other,
\* so it is absent through the first cycle
C5_LastChangeOnlyOnTransition ==
    /\ AfterUpdate =>
        /\ _current_status.up = up
        /\ _current_status.last_check = now
        /\ _current_status.last_change =
              (IF cyc.was # None /\ cyc.was # up
               THEN now ELSE cyc.status0.last_change)
    /\ BeforeUpdate => _current_status = cyc.status0
    /\ cycles <= 1 => _current_status.last_change = None

C5_Witness ==
    /\ pc = "log"
    /\ cyc.was = up
    /\ _current_status.last_change # None
    /\ _current_status.last_change < _current_status.last_check

\* C6: in every snapshot get_status has returned, last_change is absent or at
\* most last_check, and last_check is absent exactly when up is unknown
C6_SnapshotWellFormed ==
    \A r \in Readers :
        /\ snap[r].last_change = None \/ snap[r].last_change <= snap[r].last_check
        /\ snap[r].last_check = None <=> snap[r].up = None

C6_Witness ==
    \E r \in Readers :
        /\ snap[r].last_change # None
        /\ snap[r].last_change < snap[r].last_check

\* C7: every snapshot get_status has returned is the status record as one
\* cycle's update left it (or the initial record), and only the caller's next
\* get_status replaces it: the loop's later writes do not reach it
C7_SnapshotOfOneCycle ==
    /\ [] (\A r \in Readers : snap[r] \in released)
    /\ [][\A r \in Readers : snap'[r] # snap[r] => rpc[r] = "copy"]_vars

C7_Witness ==
    \E r \in Readers :
        /\ snap[r].up # None
        /\ snap[r] # _current_status
        /\ pc = "set_check"

\* C8 as stated: after a cycle in which a storage write failed, the status
\* record is what it was when that cycle began
C8_FailedCycleLeavesStatus ==
    pc = "dead" => _current_status = cyc.status0

\* C9 as stated: the target list, the probe timeout and the poll interval a
\* cycle uses are those of one configuration, the one committed (or being
\* committed) when the cycle began
C9_CycleUsesConfigOfItsStart ==
    pc = "sleep" =>
        \E c \in cyc.cfgs :
            /\ targets = c.targets
            /\ timeout_seconds = c.timeout
            /\ sleep_for = c.interval

\* C10: every completed cycle appends one status_log row holding that cycle's
\* result, so between cycles the log holds one row per cycle, in cycle order;
\* no step changes or removes a row
C10_OneSamplePerCycle ==
    /\ [] ( /\ BetweenCycles => Len(status_log) = cycles
            /\ Len(status_log) <= Len(hist)
            /\ \A i \in 1 .. Len(status_log) :
                 /\ status_log[i].id = i
                 /\ status_log[i].up = (IF hist[i] = True THEN 1 ELSE 0)
                 /\ i > 1 => status_log[i - 1].at <= status_log[i].at )
    /\ [][ /\ Len(status_log') >= Len(status_log)
           /\ SubSeq(status_log', 1, Len(status_log)) = status_log ]_vars

C10_Witness ==
    /\ pc = "sleep"
    /\ Len(status_log) = 3
    /\ status_log[2].up # status_log[3].up
    /\ status_log[1].at < status_log[3].at

\* a request field that int() and the range test of its key refuse
RefusedInt(value, lo, hi) ==
    \/ value.kind \notin {"int", "float"}
    \/ value.kind = "int" /\ (value.v < lo \/ value.v > hi)
    \/ value.kind = "float" /\ (value.v < 10 * lo \/ value.v >= 10 * (hi + 1))

\* the value a request asks for: the field's if it is supplied, else the committed one
Asked(payload, key, committed) ==
    IF key \in payload.keys THEN ParseInt(payload[key]).v ELSE committed

\* the request is one that is to be refused: a bad target, an interval or timeout out
\* of range, or a resulting timeout greater than the resulting interval
FailsValidation(payload, before) ==
    \/ "ping_targets" \in payload.keys /\ ~_normalize_targets(payload.ping_targets).ok
    \/ "ping_target" \in payload.keys /\ ~_normalize_target(payload.ping_target).ok
    \/ "poll_interval" \in payload.keys
          /\ RefusedInt(payload.poll_interval, 1, 3600)
    \/ "ping_timeout" \in payload.keys
          /\ RefusedInt(payload.ping_timeout, 1, 60)
    \/ Asked(payload, "ping_timeout", before.timeout)
          > Asked(payload, "poll_interval", before.interval)

\* C11: an update_runtime_config call that fails validation raises and leaves
\* the committed targets, interval and timeout as they were
C11_RejectedUpdateChangesNothing ==
    (req.n > 0 /\ req.payload.dict /\ FailsValidation(req.payload, req.before)) =>
        /\ req.raised = "ValueError"
        /\ CurrentConfig = req.before
        /\ cfg_committed = req.before
        /\ upc = "idle"

C11_Witness ==
    /\ req.n > 0
    /\ req.payload.keys = {"ping_timeout"}
    /\ req.payload.ping_timeout = IntValue(15)
    /\ req.before.interval = 10
    /\ req.raised = "ValueError"
    /\ CurrentConfig = req.before

\* no item of the sequence occurs twice
NoDuplicates(items) ==
    \A i, j \in 1 .. Len(items) : items[i] = items[j] => i = j

\* C12: the configuration get_runtime_config returns has 1 <= poll_interval
\* <= 3600, 1 <= ping_timeout <= 60, ping_timeout <= poll_interval and a
\* non-empty target list without duplicates, each target of 1 to 255 characters
C12_ConfigWellFormed ==
    /\ 1 <= cfg_seen.cfg.interval /\ cfg_seen.cfg.interval <= 3600
    /\ 1 <= cfg_seen.cfg.timeout /\ cfg_seen.cfg.timeout <= 60
    /\ cfg_seen.cfg.timeout <= cfg_seen.cfg.interval
    /\ Len(cfg_seen.cfg.targets) >= 1
    /\ NoDuplicates(cfg_seen.cfg.targets)
    /\ \A i \in 1 .. Len(cfg_seen.cfg.targets) :
          /\ Len(cfg_seen.cfg.targets[i]) >= 1
          /\ Len(cfg_seen.cfg.targets[i]) <= 255

C12_Witness ==
    /\ cfg_seen.called
    /\ updates = 2
    /\ req.raised = "ValueError"
    /\ cfg_seen.cfg = CurrentConfig
    /\ cfg_seen.cfg.timeout = cfg_seen.cfg.interval
    /\ Len(cfg_seen.cfg.targets) = 2

\* C13: when _is_internet_up has returned, the targets it probed are the first
\* ones of the configured list, in the list's order, none but the last of
\* them answered, it returned True exactly when one of them answered, and it
\* returned False only after every target of the list had failed; while it
\* is still probing, no target probed so far has answered.
C13_FirstSuccessDecides ==
    /\ Len(probed) <= Len(targets)
    /\ \A i \in 1 .. Len(probed) : probed[i].target = targets[i]
    /\ \A i \in 1 .. Len(probed) - 1 : ~probed[i].ok
    /\ pc = "ping" => \A i \in 1 .. Len(probed) : ~probed[i].ok
    /\ pc = "time" =>
          /\ up \in { True, False }
          /\ (up = True) <=> (\E i \in 1 .. Len(probed) : probed[i].ok)
          /\ (up = False) => Len(probed) = Len(targets)

\* the first of three targets fails, the second answers, the third is never
\* probed
C13_Witness ==
    /\ pc = "time"
    /\ Len(targets) = 3
    /\ Len(probed) = 2
    /\ ~probed[1].ok
    /\ probed[2].ok
    /\ up = True

\* C14: a committed record_up leaves both tables as they were when no
\* downtime row was open; otherwise it changed exactly one row, an open row
\* whose started_at no other open row exceeded, set that row's ended_at to
\* the time of the call, and changed nothing else.
C14_RecordUpClosesLatestOpen ==
    (txn.op = "record_up" /\ txn.state = "committed") =>
        LET b == txn.before.downtime
            changed == { i \in 1 .. Len(b) : downtime[i] # b[i] }
        IN  /\ Len(downtime) = Len(b)
            /\ status_log = txn.before.status_log
            /\ OpenRows(b) = {} => downtime = b
            /\ OpenRows(b) # {} =>
                  /\ Cardinality(changed) = 1
                  /\ \A i \in changed :
                        /\ i \in OpenRows(b)
                        /\ \A j \in OpenRows(b) : b[j].started_at <= b[i].started_at
                        /\ downtime[i] = [b[i] EXCEPT !.ended_at = txn.at]

\* record_up has closed the later of two open rows, which is not the row of
\* the greater id
C14_Witness ==
    /\ txn.op = "record_up"
    /\ txn.state = "committed"
    /\ Len(txn.before.downtime) = 2
    /\ OpenRows(txn.before.downtime) = { 1, 2 }
    /\ txn.before.downtime[1].started_at > txn.before.downtime[2].started_at
    /\ OpenRows(downtime) = { 2 }
    /\ downtime[1].ended_at = txn.at

\* C15: a write operation that fails leaves both tables as they were before
\* the call, the statements of a write in progress are in neither table, and
\* what another connection reads is always the tables as some commit (or the
\* stored file) left them.
C15_WritesAreAtomic ==
    /\ txn.state \in { "open", "failed" } =>
          [downtime |-> downtime, status_log |-> status_log] = txn.before
    /\ seen.tables \in commits

\* a record_up that had closed a row failed, and a reader that read while it
\* was in progress saw the row still open
C15_Witness ==
    /\ txn.state = "failed"
    /\ txn.op = "record_up"
    /\ txn.pending # txn.before
    /\ seen.during = "open"
    /\ seen.tables = txn.before
    /\ downtime = txn.before.downtime

\* what the monitor thread and the store hold, apart from the clock, the
\* readers and the lock
LoopFootprint == << loopVars, _current_status, storeVars, histVars >>

\* C16: once a storage write of a cycle has raised, the monitor thread is over
\* (it takes no further step: nothing is retried and no later cycle runs),
\* it does not hold _lock, so get_status can take it, status_log holds no
\* sample of that cycle, and when it was record_up or record_down that
\* raised, that one call was the cycle's only write: the downtime table and
\* was_up are as the cycle found them.
C16_StorageFailureEndsTheLoop ==
    /\ [](pc = "dead" =>
            /\ _lock # LoopId
            /\ CanAcquire(_lock) \/ _lock \in Readers
            /\ status_log = cyc.log0
            /\ cyc.n_down + cyc.n_up <= 1
            /\ Len(hist) < cycles =>
                  /\ cyc.n_down + cyc.n_up = 1
                  /\ downtime = cyc.downtime0
                  /\ was_up = cyc.was)
    /\ [][pc = "dead" => (pc' = "dead" /\ UNCHANGED LoopFootprint)]_vars

\* record_down raised in the second cycle, and a get_status call made after
\* that returned the status the cycle had written
C16_Witness ==
    /\ pc = "dead"
    /\ hist = << True >>
    /\ cycles = 2
    /\ up = False
    /\ cyc.n_down = 1
    /\ \E r \in Readers :
          /\ rpc[r] = "idle"
          /\ snap[r] = _current_status
          /\ snap[r].up = False

\* C17: the list get_recent_downtimes(limit) returned holds rows of the table
\* only, each of them closed and none twice, in order of started_at
\* descending; it holds limit rows, or all the closed rows when they are
\* fewer; and no closed row it leaves out started later than a row it holds.
C17_RecentAreNewestClosed ==
    recent.limit # None =>
        LET rows == recent.rows
            dt   == recent.of
            ids  == { rows[i].id : i \in 1 .. Len(rows) }
        IN  /\ \A i \in 1 .. Len(rows) :
                  /\ rows[i].ended_at # None
                  /\ \E k \in 1 .. Len(dt) : dt[k] = rows[i]
            /\ \A i, j \in 1 .. Len(rows) :
                  i < j => /\ rows[i].started_at >= rows[j].started_at
                           /\ rows[i].id # rows[j].id
            /\ Len(rows) <= recent.limit
            /\ Len(rows) = Min(recent.limit, Cardinality(ClosedRows(dt)))
            /\ \A k \in ClosedRows(dt) :
                  dt[k].id \notin ids =>
                      \A i \in 1 .. Len(rows) :
                          dt[k].started_at <= rows[i].started_at
            /\ \A k \in OpenRows(dt) : dt[k].id \notin ids

\* of two closed rows and an open one, limit 1 returned the closed row that
\* started later, which is not the one inserted last
C17_Witness ==
    /\ recent.limit = 1
    /\ Len(recent.of) = 3
    /\ ClosedRows(recent.of) = { 1, 2 }
    /\ recent.of[1].started_at > recent.of[2].started_at
    /\ recent.of[3].started_at >= recent.of[1].started_at
    /\ Len(recent.rows) = 1
    /\ recent.rows[1].id = 1

\* the samples of the last 24 hours, and those of them that are up
SamplesInWindow(log, t) == { i \in 1 .. Len(log) : t - log[i].at <= 86400 }

UpInWindow(log, t) == { i \in SamplesInWindow(log, t) : log[i].up = 1 }

\* samples, downtime_seconds and the result for an empty window
StatsCounts ==
    LET n   == Cardinality(SamplesInWindow(stats.of, stats.at))
        ups == Cardinality(UpInWindow(stats.of, stats.at))
    IN  /\ n = 0 => /\ stats.uptime_pct = None
                    /\ stats.samples = 0
                    /\ stats.downtime_seconds = None
        /\ n > 0 => /\ stats.samples = n
                    /\ stats.downtime_seconds = (n - ups) * stats.interval

\* seven of ten samples up at interval 10: 70.00, 10, 30
SevenOfTen ==
    (stats.called /\ stats.of = ExampleLog /\ stats.interval = 10) =>
        /\ stats.uptime_pct = 7000
        /\ stats.samples = 10
        /\ stats.downtime_seconds = 30

\* C18 as stated: uptime_pct (held in hundredths) is 100 x up-samples /
\* samples exactly, along with the counts and the empty-window result.
C18_UptimePctExact ==
    stats.called =>
        LET n   == Cardinality(SamplesInWindow(stats.of, stats.at))
            ups == Cardinality(UpInWindow(stats.of, stats.at))
        IN  /\ StatsCounts
            /\ SevenOfTen
            /\ n > 0 => stats.uptime_pct * n = 10000 * ups

\* C18: get_uptime_stats returns null, 0, null for an empty window, and
\* otherwise the number of samples in the window, the number of down samples
\* among them times the poll interval, and 100 x up-samples / samples rounded
\* to the nearest hundredth.
C18_UptimePctRoundedTo2Places ==
    stats.called =>
        LET n   == Cardinality(SamplesInWindow(stats.of, stats.at))
            ups == Cardinality(UpInWindow(stats.of, stats.at))
            off == stats.uptime_pct * n - 10000 * ups
        IN  /\ StatsCounts
            /\ SevenOfTen
            /\ n > 0 => /\ 2 * off <= n
                        /\ -2 * off <= n

\* two of three samples up at interval 10: 66.67, 3, 10
C18_Witness ==
    /\ stats.called
    /\ stats.samples = 3
    /\ stats.uptime_pct = 6667
    /\ stats.downtime_seconds = 10
    /\ stats.interval = 10

\* C19 as stated: also when the process has been restarted, at most one
\* downtime row is open, and while the monitor thread sleeps after a cycle
\* a row is open only if the status it wrote is down.
C19_InvariantsSurviveRestart ==
    /\ Cardinality(OpenRows(downtime)) <= 1
    /\ (pc = "sleep" /\ OpenRows(downtime) # {}) => _current_status.up = False

\* C20 as stated: once start_monitor has been called, the monitor threads it
\* has started (none of which ends) number exactly one, and the tables exist
\* before a thread begins its first cycle.
C20_OneLoopHoweverOftenStarted ==
    /\ started >= 1 => started = 1
    /\ cycles > 0 => schema

\* the up->down transitions in a history of results
UpDowns(h) == { i \in Flips(h) : h[i] = False }

\* a status record written by a cycle that found a transition
ReflectsTransition(st) == st.last_change # None /\ st.last_change = st.last_check

\* the downtime table holds the write of every transition in the history h:
\* a row per up->down, a closed row per down->up that had a row to close,
\* and a row is open exactly when the last result is down after an up
WritesCommitted(h, dt) ==
    /\ Len(dt) = Cardinality(UpDowns(h))
    /\ Cardinality(ClosedRows(dt)) = Cardinality(DownUpsAfterUp(h))
    /\ h # << >> /\ h[Len(h)] = True => OpenRows(dt) = {}
    /\ (h # << >> /\ h[Len(h)] = False /\ UpDowns(h) # {}) =>
          OpenRows(dt) = { Len(dt) }

\* C21: while no storage write has failed, whenever get_status returns a
\* snapshot that reflects a transition, the snapshot is the status of the
\* last result the loop processed and the downtime table already holds that
\* transition's write: for up = False a row opened no earlier than
\* last_change is open, for up = True no row is open; the same holds of the
\* status record at every moment the monitor thread does not hold _lock.
C21_TransitionVisibleOnlyAfterDowntimeWrite ==
    /\ []((pc # "dead" /\ _lock # LoopId) =>
            /\ WritesCommitted(hist, downtime)
            /\ hist # << >> => _current_status.up = hist[Len(hist)])
    /\ [][\A r \in Readers :
            (pc # "dead" /\ rpc[r] = "copy" /\ rpc'[r] = "idle"
                /\ ReflectsTransition(snap'[r])) =>
                /\ snap'[r].up = hist[Len(hist)]
                /\ WritesCommitted(hist, downtime)
                /\ snap'[r].up = False =>
                      \E i \in OpenRows(downtime) :
                          downtime[i].started_at >= snap'[r].last_change
                /\ snap'[r].up = True => OpenRows(downtime) = {}]_vars

\* a reader holds the snapshot of an up->down transition, the row of the
\* outage is open, and the status_log sample of that cycle is not yet written
C21_Witness ==
    /\ pc = "log"
    /\ hist = << True, False >>
    /\ Len(status_log) = 1
    /\ Cardinality(OpenRows(downtime)) = 1
    /\ \E r \in Readers :
          /\ rpc[r] = "idle"
          /\ snap[r] = _current_status
          /\ snap[r].up = False
          /\ ReflectsTransition(snap[r])

====
